---- MODULE Spec2Model ----
(***************************************************************************)
(* awsctx: the profile stores (src/src/config.rs and its credentials       *)
(* sibling) and the context switch protocol of src/src/aws.rs.             *)
(*                                                                         *)
(* A name (profile name, section name) is a sequence of words; the string  *)
(* it stands for is the words joined by one space, so "profile foo" is     *)
(* <<"profile", "foo">>.  None, the absent Option, is the empty sequence.  *)
(* An attribute mapping (HashMap<String, String>) is a function from a set *)
(* of keys to values; a value 1..MaxVal stands for a string.  A file is    *)
(* the sequence of its sections, each a name and its key=value lines.      *)
(***************************************************************************)
EXTENDS Integers, Sequences, FiniteSets, TLC

VARIABLES credentials, config, configs, credentials_file, config_file, last

vars == <<credentials, config, configs, credentials_file, config_file, last>>

\* number of distinct attribute values in the files the stores start from
MaxVal == 2

Values == 1..MaxVal

None == <<>>

DEFAULT_PROFILE_NAME == <<"default">>

PROFILE_PREFIX == <<"profile">>

\* ---------------------------------------------------------------------
\* strings: ordering, prefixes
\* ---------------------------------------------------------------------

\* the words the model uses, in the order str::cmp gives them
WordOrder == <<"__default", "bar", "default", "foo", "nope", "output", "profile", "region">>

Rank(w) == CHOOSE i \in 1..Len(WordOrder) : WordOrder[i] = w

RECURSIVE StrLeq(_, _)
StrLeq(a, b) ==
  IF a = <<>> THEN TRUE
  ELSE IF b = <<>> THEN FALSE
  ELSE IF a[1] = b[1] THEN StrLeq(Tail(a), Tail(b))
  ELSE Rank(a[1]) < Rank(b[1])

\* Vec::sort of a set of names
RECURSIVE SortNames(_)
SortNames(S) ==
  IF S = {} THEN <<>>
  ELSE LET m == CHOOSE x \in S : \A y \in S : StrLeq(x, y)
       IN <<m>> \o SortNames(S \ {m})

\* Vec::sort of a set of attribute keys
RECURSIVE SortKeys(_)
SortKeys(S) ==
  IF S = {} THEN <<>>
  ELSE LET m == CHOOSE x \in S : \A y \in S : Rank(x) <= Rank(y)
       IN <<m>> \o SortKeys(S \ {m})

\* .into_iter().rev()
Reverse(seq) == [i \in 1..Len(seq) |-> seq[Len(seq) + 1 - i]]

\* str::strip_prefix(PROFILE_PREFIX): None when the name does not start with "profile "
strip_prefix(name) ==
  IF Len(name) >= 2 /\ SubSeq(name, 1, 1) = PROFILE_PREFIX THEN Tail(name) ELSE None

\* k.strip_prefix(PROFILE_PREFIX).unwrap_or(&k)
strip_prefix_or(name) ==
  IF strip_prefix(name) = None THEN name ELSE strip_prefix(name)

\* format!("profile {}", profile_name)
with_prefix(name) == PROFILE_PREFIX \o name

\* ---------------------------------------------------------------------
\* results
\* ---------------------------------------------------------------------

Ok(name, flag) == [kind |-> "Ok", name |-> name, active |-> flag]

Err(kind, name) == [kind |-> kind, name |-> name, active |-> FALSE]

\* ---------------------------------------------------------------------
\* files
\* ---------------------------------------------------------------------

\* the key=value lines of a section written from an attribute mapping, keys ascending
SectionLines(items) ==
  LET ks == SortKeys(DOMAIN items)
  IN [i \in 1..Len(ks) |-> <<ks[i], items[ks[i]]>>]

\* the attribute mapping read from the key=value lines of a section
LinesItems(lines) ==
  [k \in {lines[i][1] : i \in 1..Len(lines)} |->
     lines[CHOOSE i \in 1..Len(lines) :
             lines[i][1] = k /\ \A j \in 1..Len(lines) : lines[j][1] = k => j <= i][2]]

\* section name -> attribute mapping, as the INI parser returns it
parse_aws_config(file) ==
  [n \in {file[i].name : i \in 1..Len(file)} |->
     LinesItems(file[CHOOSE i \in 1..Len(file) : file[i].name = n].lines)]

\* ---------------------------------------------------------------------
\* Config: the settings store (src/src/config.rs)
\* ---------------------------------------------------------------------

\* the outcomes of the scan: HashMap iteration order is arbitrary, so every
\* prefixed section equal to the default section can be the first one found
find_default_from_parsed_aws_config(data) ==
  IF DEFAULT_PROFILE_NAME \notin DOMAIN data THEN {None}
  ELSE LET found == {n \in DOMAIN data :
                       /\ n # DEFAULT_PROFILE_NAME
                       /\ data[n] = data[DEFAULT_PROFILE_NAME]
                       /\ strip_prefix(n) # None}
       IN IF found = {} THEN {None} ELSE {strip_prefix(n) : n \in found}

\* data.into_iter().map(strip prefix).collect(): two sections with the same
\* stripped name collide and either one's attributes stay
StripKeys(data) ==
  LET names == {strip_prefix_or(k) : k \in DOMAIN data}
      items == {data[k] : k \in DOMAIN data}
  IN {f \in [names -> items] :
        \A n \in names : \E k \in DOMAIN data : strip_prefix_or(k) = n /\ f[n] = data[k]}

\* the stores Config::load_config can return for a parseable file
load_config(file) ==
  LET parsed == parse_aws_config(file)
      kept   == DOMAIN parsed \ {DEFAULT_PROFILE_NAME, with_prefix(DEFAULT_PROFILE_NAME)}
      rest   == [k \in kept |-> parsed[k]]
  IN {[data |-> d, default_profile_name |-> ck] :
        d \in StripKeys(rest), ck \in find_default_from_parsed_aws_config(parsed)}

is_default_profile(c, name) ==
  IF c.default_profile_name = None THEN FALSE ELSE c.default_profile_name = name

\* Ok(Profile { name, default, items })
Profile(name, default, items) ==
  [kind |-> "Ok", name |-> name, default |-> default, items |-> items]

\* get_profile that never flags the profile as the default
get_profile_NeverDefault(c, name) ==
  IF name \in DOMAIN c.data THEN Profile(name, FALSE, c.data[name])
  ELSE Err("NoSuchProfile", name)

get_profile(c, name) ==
  IF name \in DOMAIN c.data THEN Profile(name, is_default_profile(c, name), c.data[name])
  ELSE Err("NoSuchProfile", name)

get_default_profile(c) ==
  IF c.default_profile_name = None THEN Err("NoActiveContext", None)
  ELSE get_profile(c, c.default_profile_name)

\* set_default_profile that takes an unknown name as a new, empty profile
set_default_profile_InsertsUnknown(c, name) ==
  IF name \in DOMAIN c.data
  THEN [res |-> Profile(name, TRUE, c.data[name]),
        store |-> [c EXCEPT !.default_profile_name = name]]
  ELSE [res |-> Profile(name, TRUE, <<>>),
        store |-> [data |-> c.data @@ (name :> <<>>), default_profile_name |-> name]]

\* set_default_profile that leaves a default that is already set
set_default_profile_KeepsDefault(c, name) ==
  IF name \in DOMAIN c.data
  THEN [res |-> Profile(name, TRUE, c.data[name]),
        store |-> IF c.default_profile_name = None
                  THEN [c EXCEPT !.default_profile_name = name] ELSE c]
  ELSE [res |-> Err("NoSuchProfile", name), store |-> c]

\* set_default_profile that takes the name before it looks it up
set_default_profile_SetsFirst(c, name) ==
  IF name \in DOMAIN c.data
  THEN [res |-> Profile(name, TRUE, c.data[name]),
        store |-> [c EXCEPT !.default_profile_name = name]]
  ELSE [res |-> Err("NoSuchProfile", name), store |-> [c EXCEPT !.default_profile_name = name]]

\* Config::set_default_profile: the result and the store after the call
set_default_profile(c, name) ==
  IF name \in DOMAIN c.data
  THEN [res |-> Profile(name, TRUE, c.data[name]),
        store |-> [c EXCEPT !.default_profile_name = name]]
  ELSE [res |-> Err("NoSuchProfile", name), store |-> c]

\* list_profiles without the sort, in an order the map can iterate in
list_profiles_Unsorted(c) ==
  LET names == Reverse(SortNames(DOMAIN c.data))
  IN [i \in 1..Len(names) |->
        [name |-> names[i], default |-> is_default_profile(c, names[i]),
         items |-> c.data[names[i]]]]

list_profiles(c) ==
  LET names == SortNames(DOMAIN c.data)
  IN [i \in 1..Len(names) |->
        [name |-> names[i], default |-> is_default_profile(c, names[i]),
         items |-> c.data[names[i]]]]

\* a section reaches the Ini value, and so the text, with its first set()
IniSections(sections) == SelectSeq(sections, LAMBDA sec : sec.lines # <<>>)

\* to_string with the reserved section ahead of the profiles
to_string_DefaultFirst(c) ==
  LET names    == SortNames(DOMAIN c.data)
      profiles == [i \in 1..Len(names) |->
                     [name |-> with_prefix(names[i]), lines |-> SectionLines(c.data[names[i]])]]
  IN IF c.default_profile_name = None
     THEN [panic |-> FALSE, text |-> IniSections(profiles)]
     ELSE IF c.default_profile_name \notin DOMAIN c.data
     THEN [panic |-> TRUE, text |-> <<>>]
     ELSE [panic |-> FALSE,
           text |-> IniSections(<<[name |-> DEFAULT_PROFILE_NAME,
                                   lines |-> SectionLines(c.data[c.default_profile_name])]>>
                                \o profiles)]

\* to_string without the reserved section
to_string_NoDefault(c) ==
  LET names == SortNames(DOMAIN c.data)
  IN [panic |-> FALSE,
      text |-> IniSections([i \in 1..Len(names) |->
                 [name |-> with_prefix(names[i]), lines |-> SectionLines(c.data[names[i]])]])]

\* impl Display for Config: the text, or the unwrap() on a default that is not in data
to_string(c) ==
  LET names    == SortNames(DOMAIN c.data)
      profiles == [i \in 1..Len(names) |->
                     [name |-> with_prefix(names[i]), lines |-> SectionLines(c.data[names[i]])]]
  IN IF c.default_profile_name = None
     THEN [panic |-> FALSE, text |-> IniSections(profiles)]
     ELSE IF c.default_profile_name \notin DOMAIN c.data
     THEN [panic |-> TRUE, text |-> <<>>]
     ELSE [panic |-> FALSE,
           text |-> IniSections(Append(profiles,
                      [name |-> DEFAULT_PROFILE_NAME,
                       lines |-> SectionLines(c.data[c.default_profile_name])]))]

\* what a dump can meet: File::create fails (the file stays), write_all fails
\* (the file was truncated by create), or all of it succeeds
IoOutcomes == {"ok", "create_failed", "write_failed"}

\* Config::dump_config: the result and the file after the call
dump_config(c, file, io) ==
  IF io = "create_failed" THEN [res |-> Err("CannotWriteConfig", None), file |-> file]
  ELSE IF to_string(c).panic THEN [res |-> Err("Panic", None), file |-> <<>>]
  ELSE IF io = "write_failed" THEN [res |-> Err("CannotWriteConfig", None), file |-> <<>>]
  ELSE [res |-> Ok(None, FALSE), file |-> to_string(c).text]

\* ---------------------------------------------------------------------
\* Credentials: the credentials store, the sibling of Config whose sections
\* are named by the profile name itself
\* ---------------------------------------------------------------------

find_default_from_parsed_aws_credentials(data) ==
  IF DEFAULT_PROFILE_NAME \notin DOMAIN data THEN {None}
  ELSE LET found == {n \in DOMAIN data :
                       n # DEFAULT_PROFILE_NAME /\ data[n] = data[DEFAULT_PROFILE_NAME]}
       IN IF found = {} THEN {None} ELSE found

load_credentials(file) ==
  LET parsed == parse_aws_config(file)
      kept   == DOMAIN parsed \ {DEFAULT_PROFILE_NAME}
  IN {[data |-> [k \in kept |-> parsed[k]], default_profile_name |-> ck] :
        ck \in find_default_from_parsed_aws_credentials(parsed)}

Credentials_set_default_profile(c, name) ==
  IF name \in DOMAIN c.data
  THEN [res |-> Ok(name, TRUE), store |-> [c EXCEPT !.default_profile_name = name]]
  ELSE [res |-> Err("NoSuchProfile", name), store |-> c]

Credentials_get_default_profile(c) ==
  IF c.default_profile_name = None THEN Err("NoActiveContext", None)
  ELSE IF c.default_profile_name \in DOMAIN c.data THEN Ok(c.default_profile_name, TRUE)
  ELSE Err("NoSuchProfile", c.default_profile_name)

Credentials_list_profiles(c) ==
  LET names == SortNames(DOMAIN c.data)
  IN [i \in 1..Len(names) |->
        [name |-> names[i],
         default |-> (c.default_profile_name # None /\ c.default_profile_name = names[i]),
         items |-> c.data[names[i]]]]

Credentials_to_string(c) ==
  LET names    == SortNames(DOMAIN c.data)
      profiles == [i \in 1..Len(names) |->
                     [name |-> names[i], lines |-> SectionLines(c.data[names[i]])]]
  IN IF c.default_profile_name = None
     THEN [panic |-> FALSE, text |-> IniSections(profiles)]
     ELSE IF c.default_profile_name \notin DOMAIN c.data
     THEN [panic |-> TRUE, text |-> <<>>]
     ELSE [panic |-> FALSE,
           text |-> IniSections(Append(profiles,
                      [name |-> DEFAULT_PROFILE_NAME,
                       lines |-> SectionLines(c.data[c.default_profile_name])]))]

Credentials_dump_credentials(c, file, io) ==
  IF io = "create_failed" THEN [res |-> Err("CannotWriteCredentials", None), file |-> file]
  ELSE IF Credentials_to_string(c).panic THEN [res |-> Err("Panic", None), file |-> <<>>]
  ELSE IF io = "write_failed" THEN [res |-> Err("CannotWriteCredentials", None), file |-> <<>>]
  ELSE [res |-> Ok(None, FALSE), file |-> Credentials_to_string(c).text]

\* ---------------------------------------------------------------------
\* AWS: the context manager (src/src/aws.rs)
\* ---------------------------------------------------------------------

\* the key of the fallback auth command in Configs::auth_commands
DEFAULT_AUTH_COMMAND_KEY == <<"__default">>

\* Handlebars::render_template(template, {"profile": profile}): the script, or
\* None for a template that does not parse
RECURSIVE render_template(_, _)
render_template(template, profile) ==
  IF \E i \in 1..Len(template) : template[i] = "{{#if" THEN None
  ELSE IF template = <<>> THEN <<>>
  ELSE (IF Head(template) = "{{profile}}" THEN profile ELSE <<Head(template)>>)
         \o render_template(Tail(template), profile)

\* what `sh -c script` can do: not start, exit with zero, exit with nonzero
ShOutcomes(script) ==
  {"spawn_failed"} \cup
  (IF script = <<"exit", "1">> THEN {"exit_nonzero"}
   ELSE IF Head(script) = "echo" THEN {"exit_zero"}
   ELSE {"exit_zero", "exit_nonzero"})

\* list_contexts in the order the picker is sent
list_contexts_Reversed(creds) ==
  LET ps == Reverse(Credentials_list_profiles(creds))
  IN [i \in 1..Len(ps) |-> [name |-> ps[i].name, active |-> ps[i].default]]

\* AWS::list_contexts
list_contexts(creds) ==
  LET ps == Credentials_list_profiles(creds)
  IN [i \in 1..Len(ps) |-> [name |-> ps[i].name, active |-> ps[i].default]]

\* get_active_context that does not copy the default flag of the profile
get_active_context_Inactive(creds) ==
  LET p == Credentials_get_default_profile(creds)
  IN IF p.kind = "Ok" THEN Ok(p.name, FALSE) ELSE p

\* AWS::get_active_context
get_active_context(creds) == Credentials_get_default_profile(creds)

\* set_default_profile that sets the credentials store and only looks the name
\* up in the settings store
AWS_set_default_profile_CredentialsOnly(creds, cfg, name) ==
  LET r1 == Credentials_set_default_profile(creds, name)
      r2 == get_profile(cfg, name)
  IN IF r1.res.kind # "Ok"
     THEN [res |-> r1.res, credentials |-> r1.store, config |-> cfg,
           steps |-> <<<<"creds.set_default_profile", r1.res.kind>>>>]
     ELSE [res |-> IF r2.kind = "Ok" THEN Ok(r1.res.name, r1.res.active) ELSE r2,
           credentials |-> r1.store, config |-> cfg,
           steps |-> <<<<"creds.set_default_profile", r1.res.kind>>,
                       <<"config.set_default_profile", r2.kind>>>>]

\* set_default_profile that sets the settings store first
AWS_set_default_profile_ConfigFirst(creds, cfg, name) ==
  LET r2 == set_default_profile(cfg, name)
      r1 == Credentials_set_default_profile(creds, name)
  IN IF r2.res.kind # "Ok"
     THEN [res |-> r2.res, credentials |-> creds, config |-> r2.store,
           steps |-> <<<<"config.set_default_profile", r2.res.kind>>>>]
     ELSE [res |-> IF r1.res.kind = "Ok" THEN Ok(r1.res.name, r1.res.active) ELSE r1.res,
           credentials |-> r1.store, config |-> r2.store,
           steps |-> <<<<"config.set_default_profile", r2.res.kind>>,
                       <<"creds.set_default_profile", r1.res.kind>>>>]

\* set_default_profile that puts the credentials default back when the
\* settings store refuses the name
AWS_set_default_profile_Rollback(creds, cfg, name) ==
  LET r1 == Credentials_set_default_profile(creds, name)
      r2 == set_default_profile(cfg, name)
  IN IF r1.res.kind # "Ok"
     THEN [res |-> r1.res, credentials |-> r1.store, config |-> cfg,
           steps |-> <<<<"creds.set_default_profile", r1.res.kind>>>>]
     ELSE [res |-> IF r2.res.kind = "Ok" THEN Ok(r1.res.name, r1.res.active) ELSE r2.res,
           credentials |-> IF r2.res.kind = "Ok" THEN r1.store ELSE creds,
           config |-> r2.store,
           steps |-> <<<<"creds.set_default_profile", r1.res.kind>>,
                       <<"config.set_default_profile", r2.res.kind>>>>]

\* AWS::set_default_profile: the result, the two stores after the call and
\* the calls made, each with its outcome
AWS_set_default_profile(creds, cfg, name) ==
  LET r1 == Credentials_set_default_profile(creds, name)
      r2 == set_default_profile(cfg, name)
  IN IF r1.res.kind # "Ok"
     THEN [res |-> r1.res, credentials |-> r1.store, config |-> cfg,
           steps |-> <<<<"creds.set_default_profile", r1.res.kind>>>>]
     ELSE IF r2.res.kind # "Ok"
     THEN [res |-> r2.res, credentials |-> r1.store, config |-> r2.store,
           steps |-> <<<<"creds.set_default_profile", r1.res.kind>>,
                       <<"config.set_default_profile", r2.res.kind>>>>]
     ELSE [res |-> Ok(r1.res.name, r1.res.active),
           credentials |-> r1.store, config |-> r2.store,
           steps |-> <<<<"creds.set_default_profile", r1.res.kind>>,
                       <<"config.set_default_profile", r2.res.kind>>>>]

\* use_context that dumps both stores before it sets the default
use_context_DumpFirst(creds, cfg, cfile, gfile, name, io1, io2) ==
  LET d1 == Credentials_dump_credentials(creds, cfile, io1)
      d2 == dump_config(cfg, gfile, io2)
      r  == AWS_set_default_profile(creds, cfg, name)
      s1 == <<<<"dump_credentials", d1.res.kind>>>>
      s2 == Append(s1, <<"dump_config", d2.res.kind>>)
  IN IF d1.res.kind # "Ok"
     THEN [res |-> d1.res, credentials |-> creds, config |-> cfg,
           credentials_file |-> d1.file, config_file |-> gfile, steps |-> s1]
     ELSE IF d2.res.kind # "Ok"
     THEN [res |-> d2.res, credentials |-> creds, config |-> cfg,
           credentials_file |-> d1.file, config_file |-> d2.file, steps |-> s2]
     ELSE [res |-> r.res, credentials |-> r.credentials, config |-> r.config,
           credentials_file |-> d1.file, config_file |-> d2.file, steps |-> s2 \o r.steps]

\* use_context that dumps the settings store before the credentials store
use_context_ConfigDumpFirst(creds, cfg, cfile, gfile, name, io1, io2) ==
  LET r  == AWS_set_default_profile(creds, cfg, name)
      d2 == dump_config(r.config, gfile, io2)
      d1 == Credentials_dump_credentials(r.credentials, cfile, io1)
      s1 == Append(r.steps, <<"dump_config", d2.res.kind>>)
      s2 == Append(s1, <<"dump_credentials", d1.res.kind>>)
  IN IF r.res.kind # "Ok"
     THEN r @@ [credentials_file |-> cfile, config_file |-> gfile]
     ELSE IF d2.res.kind # "Ok"
     THEN [res |-> d2.res, credentials |-> r.credentials, config |-> r.config,
           credentials_file |-> cfile, config_file |-> d2.file, steps |-> s1]
     ELSE [res |-> IF d1.res.kind = "Ok" THEN r.res ELSE d1.res,
           credentials |-> r.credentials, config |-> r.config,
           credentials_file |-> d1.file, config_file |-> d2.file, steps |-> s2]

\* use_context that drops the result of the settings dump
use_context_IgnoresConfigDump(creds, cfg, cfile, gfile, name, io1, io2) ==
  LET r  == AWS_set_default_profile(creds, cfg, name)
      d1 == Credentials_dump_credentials(r.credentials, cfile, io1)
      d2 == dump_config(r.config, gfile, io2)
      s1 == Append(r.steps, <<"dump_credentials", d1.res.kind>>)
      s2 == Append(s1, <<"dump_config", d2.res.kind>>)
  IN IF r.res.kind # "Ok"
     THEN r @@ [credentials_file |-> cfile, config_file |-> gfile]
     ELSE IF d1.res.kind # "Ok"
     THEN [res |-> d1.res, credentials |-> r.credentials, config |-> r.config,
           credentials_file |-> d1.file, config_file |-> gfile, steps |-> s1]
     ELSE [res |-> r.res, credentials |-> r.credentials, config |-> r.config,
           credentials_file |-> d1.file, config_file |-> d2.file, steps |-> s2]

\* AWS::use_context after a successful dump_credentials: dump_config, and the
\* context of set_default_profile when it succeeds too
use_context_dump_config(r, d1, gfile, io2) ==
  LET d2 == dump_config(r.config, gfile, io2)
  IN [res |-> IF d2.res.kind = "Ok" THEN r.res ELSE d2.res,
      credentials |-> r.credentials, config |-> r.config,
      credentials_file |-> d1.file, config_file |-> d2.file,
      steps |-> r.steps \o <<<<"dump_credentials", d1.res.kind>>, <<"dump_config", d2.res.kind>>>>]

\* AWS::use_context after a successful set_default_profile: dump_credentials,
\* and on its success the rest
use_context_dump_credentials(r, cfile, gfile, io1, io2) ==
  LET d1 == Credentials_dump_credentials(r.credentials, cfile, io1)
  IN IF d1.res.kind # "Ok"
     THEN [res |-> d1.res, credentials |-> r.credentials, config |-> r.config,
           credentials_file |-> d1.file, config_file |-> gfile,
           steps |-> Append(r.steps, <<"dump_credentials", d1.res.kind>>)]
     ELSE use_context_dump_config(r, d1, gfile, io2)

\* AWS::use_context: set_default_profile, dump_credentials, dump_config, each
\* `?` returning at the first error; io1 and io2 are what the two dumps meet
use_context(creds, cfg, cfile, gfile, name, io1, io2) ==
  LET r == AWS_set_default_profile(creds, cfg, name)
  IN IF r.res.kind # "Ok"
     THEN r @@ [credentials_file |-> cfile, config_file |-> gfile]
     ELSE use_context_dump_credentials(r, cfile, gfile, io1, io2)

\* the lookup that prefers the fallback command
script_template_FallbackFirst(cfgs, profile) ==
  IF DEFAULT_AUTH_COMMAND_KEY \in DOMAIN cfgs THEN cfgs[DEFAULT_AUTH_COMMAND_KEY]
  ELSE IF profile \in DOMAIN cfgs THEN cfgs[profile]
  ELSE None

\* AWS::auth, the template lookup: the command of the profile, else the
\* fallback command, else None
script_template(cfgs, profile) ==
  IF profile \in DOMAIN cfgs THEN cfgs[profile]
  ELSE IF DEFAULT_AUTH_COMMAND_KEY \in DOMAIN cfgs THEN cfgs[DEFAULT_AUTH_COMMAND_KEY]
  ELSE None

\* AWS::auth returning before use_context: nothing is changed
auth_returns(creds, cfg, cfile, gfile, res) ==
  [res |-> res, credentials |-> creds, config |-> cfg,
   credentials_file |-> cfile, config_file |-> gfile, steps |-> <<>>]

\* auth that does not look at the exit status of a script that ran
auth_IgnoresStatus(creds, cfg, cfile, gfile, cfgs, profile, env, io1, io2) ==
  LET template == script_template(cfgs, profile)
      script   == render_template(template, profile)
  IN IF template = None
     THEN auth_returns(creds, cfg, cfile, gfile, Err("NoAuthConfiguration", profile))
            @@ [template |-> None, script |-> None, status |-> "none", switch |-> FALSE]
     ELSE IF script = None
     THEN auth_returns(creds, cfg, cfile, gfile, Err("InvalidConfigurations", None))
            @@ [template |-> template, script |-> None, status |-> "none", switch |-> FALSE]
     ELSE IF env = "spawn_failed"
     THEN auth_returns(creds, cfg, cfile, gfile, Err("InvalidConfigurations", None))
            @@ [template |-> template, script |-> script, status |-> env, switch |-> FALSE]
     ELSE use_context(creds, cfg, cfile, gfile, profile, io1, io2)
            @@ [template |-> template, script |-> script, status |-> env, switch |-> TRUE]

\* AWS::auth: env is what running the rendered script meets. The result of
\* use_context, with the template found, the script handed to sh, its
\* outcome and whether use_context was called
auth(creds, cfg, cfile, gfile, cfgs, profile, env, io1, io2) ==
  LET template == script_template(cfgs, profile)
      script   == render_template(template, profile)
  IN IF template = None
     THEN auth_returns(creds, cfg, cfile, gfile, Err("NoAuthConfiguration", profile))
            @@ [template |-> None, script |-> None, status |-> "none", switch |-> FALSE]
     ELSE IF script = None
     THEN auth_returns(creds, cfg, cfile, gfile, Err("InvalidConfigurations", None))
            @@ [template |-> template, script |-> None, status |-> "none", switch |-> FALSE]
     ELSE IF env # "exit_zero"
     THEN auth_returns(creds, cfg, cfile, gfile, Err("InvalidConfigurations", None))
            @@ [template |-> template, script |-> script, status |-> env, switch |-> FALSE]
     ELSE use_context(creds, cfg, cfile, gfile, profile, io1, io2)
            @@ [template |-> template, script |-> script, status |-> env, switch |-> TRUE]

\* an item the picker hands back that is not one of the contexts it was sent
NotAContext == [name |-> None, active |-> FALSE]

\* what the picker can do with the candidates it is sent: the channel refuses
\* an item, Skim::run_with returns None, or it returns the key that ended it
\* and the items selected
PickerOutcomes(candidates) ==
  LET items == {<<>>, <<NotAContext>>} \cup {<<candidates[i]>> : i \in 1..Len(candidates)}
      all   == Len(candidates)
  IN {[run |-> "none", sent |-> all, final_key |-> "none", selected |-> <<>>]}
     \cup {[run |-> "send_failed", sent |-> n, final_key |-> "none", selected |-> <<>>] :
             n \in 0..(all - 1)}
     \cup {[run |-> "some", sent |-> all, final_key |-> "Enter", selected |-> sel] : sel \in items}
     \cup {[run |-> "some", sent |-> all, final_key |-> "ESC", selected |-> sel] :
             sel \in items \ {<<NotAContext>>}}

\* the items sent to the picker: the contexts of list_contexts from the last to
\* the first, up to the item the channel refuses
sent_items(creds, pick) == SubSeq(Reverse(list_contexts(creds)), 1, pick.sent)

\* AWS::use_context_interactive returning before use_context
use_context_interactive_returns(creds, cfg, cfile, gfile, pick, kind, status) ==
  [res |-> Err(kind, None), credentials |-> creds, config |-> cfg,
   credentials_file |-> cfile, config_file |-> gfile, steps |-> <<>>,
   picked |-> None, status |-> status, switch |-> FALSE,
   candidates |-> sent_items(creds, pick)]

\* use_context_interactive that takes the selection whatever key ended the picker
use_context_interactive_AnyKey(creds, cfg, cfile, gfile, pick, io1, io2) ==
  IF pick.run = "send_failed"
  THEN use_context_interactive_returns(creds, cfg, cfile, gfile, pick, "UnexpectedError", "send_failed")
  ELSE IF pick.run = "none"
  THEN use_context_interactive_returns(creds, cfg, cfile, gfile, pick, "NoContextIsSelected", "none")
  ELSE IF pick.selected = <<>>
  THEN use_context_interactive_returns(creds, cfg, cfile, gfile, pick, "NoContextIsSelected",
                                       IF pick.final_key = "Enter" THEN "empty" ELSE "key")
  ELSE IF pick.selected[1] = NotAContext
  THEN use_context_interactive_returns(creds, cfg, cfile, gfile, pick, "UnexpectedError", "not_a_context")
  ELSE use_context(creds, cfg, cfile, gfile, pick.selected[1].name, io1, io2)
         @@ [picked |-> pick.selected[1].name,
             status |-> IF pick.final_key = "Enter" THEN "selected" ELSE "key",
             switch |-> TRUE,
             candidates |-> sent_items(creds, pick)]

\* use_context_interactive that sends the contexts in the order of list_contexts
use_context_interactive_Unreversed(creds, cfg, cfile, gfile, pick, io1, io2) ==
  IF pick.run = "send_failed"
  THEN use_context_interactive_returns(creds, cfg, cfile, gfile, pick, "UnexpectedError", "send_failed")
  ELSE IF pick.run = "none"
  THEN [use_context_interactive_returns(creds, cfg, cfile, gfile, pick, "NoContextIsSelected", "none")
          EXCEPT !.candidates = list_contexts(creds)]
  ELSE IF pick.final_key # "Enter"
  THEN [use_context_interactive_returns(creds, cfg, cfile, gfile, pick, "NoContextIsSelected", "key")
          EXCEPT !.candidates = list_contexts(creds)]
  ELSE IF pick.selected = <<>>
  THEN [use_context_interactive_returns(creds, cfg, cfile, gfile, pick, "NoContextIsSelected", "empty")
          EXCEPT !.candidates = list_contexts(creds)]
  ELSE IF pick.selected[1] = NotAContext
  THEN [use_context_interactive_returns(creds, cfg, cfile, gfile, pick, "UnexpectedError", "not_a_context")
          EXCEPT !.candidates = list_contexts(creds)]
  ELSE use_context(creds, cfg, cfile, gfile, pick.selected[1].name, io1, io2)
         @@ [picked |-> pick.selected[1].name, status |-> "selected", switch |-> TRUE,
             candidates |-> list_contexts(creds)]

\* AWS::use_context_interactive: pick is what the picker does. The result of
\* use_context with the name picked, the picker's outcome, whether use_context
\* was called and the candidates the picker was sent
use_context_interactive(creds, cfg, cfile, gfile, pick, io1, io2) ==
  IF pick.run = "send_failed"
  THEN use_context_interactive_returns(creds, cfg, cfile, gfile, pick, "UnexpectedError", "send_failed")
  ELSE IF pick.run = "none"
  THEN use_context_interactive_returns(creds, cfg, cfile, gfile, pick, "NoContextIsSelected", "none")
  ELSE IF pick.final_key # "Enter"
  THEN use_context_interactive_returns(creds, cfg, cfile, gfile, pick, "NoContextIsSelected", "key")
  ELSE IF pick.selected = <<>>
  THEN use_context_interactive_returns(creds, cfg, cfile, gfile, pick, "NoContextIsSelected", "empty")
  ELSE IF pick.selected[1] = NotAContext
  THEN use_context_interactive_returns(creds, cfg, cfile, gfile, pick, "UnexpectedError", "not_a_context")
  ELSE use_context(creds, cfg, cfile, gfile, pick.selected[1].name, io1, io2)
         @@ [picked |-> pick.selected[1].name, status |-> "selected", switch |-> TRUE,
             candidates |-> sent_items(creds, pick)]

\* ---------------------------------------------------------------------
\* the stores and files a run starts from
\* ---------------------------------------------------------------------

\* the sections a credentials file can have
CredSections == {DEFAULT_PROFILE_NAME, <<"bar">>, <<"foo">>}

\* the sections a settings file can have
ConfigSections ==
  {DEFAULT_PROFILE_NAME, with_prefix(DEFAULT_PROFILE_NAME),
   with_prefix(<<"bar">>), with_prefix(<<"foo">>)}

\* the attribute mappings of the sections
CtxItems == [{"region"} -> Values]

SectionMaps(sections, items) == UNION {[d -> items] : d \in SUBSET sections}

\* a file holding the sections of m
InputFile(m) ==
  LET names == SortNames(DOMAIN m)
  IN [i \in 1..Len(names) |-> [name |-> names[i], lines |-> SectionLines(m[names[i]])]]

\* attribute values are opaque strings that are only ever compared, so a file
\* stands for every file it becomes by renaming values: in section order, a
\* section takes a value already used or the first unused one
FirstUse(m) ==
  LET names == SortNames(DOMAIN m)
  IN \A i \in 1..Len(names) :
       \A v \in 1..(m[names[i]]["region"] - 1) :
         \E j \in 1..(i - 1) : m[names[j]]["region"] = v

InputFiles(sections) ==
  {InputFile(m) : m \in {x \in SectionMaps(sections, CtxItems) : FirstUse(x)}}

\* Configs::auth_commands: the commands of the tests (foo succeeds, bar exits
\* with 1) with a templated fallback command, and without a fallback and with
\* a command of foo that does not parse
ConfigsChoices ==
  {(<<"foo">> :> <<"echo", "auth">>) @@ (<<"bar">> :> <<"exit", "1">>)
      @@ (DEFAULT_AUTH_COMMAND_KEY :> <<"login", "{{profile}}">>),
   (<<"foo">> :> <<"{{#if">>) @@ (<<"bar">> :> <<"exit", "1">>)}

\* the profile names the caller passes
OpNames == {<<"bar">>, <<"foo">>, <<"nope">>}

\* the record of the last call: what was called with what, what it returned,
\* the calls it made, for auth the template, the script and its outcome, for
\* the interactive switch the picker's outcome and the candidates it was sent
Called(op, name, res, steps, template, script, status, switch, list) ==
  [op |-> op, name |-> name, res |-> res, steps |-> steps, template |-> template,
   script |-> script, status |-> status, switch |-> switch, list |-> list]

\* AWS::new
Init ==
  /\ credentials_file \in InputFiles(CredSections)
  /\ config_file \in InputFiles(ConfigSections)
  /\ credentials \in load_credentials(credentials_file)
  /\ config \in load_config(config_file)
  /\ configs \in ConfigsChoices
  /\ last = Called("new", None, Ok(None, FALSE), <<>>, None, None, "none", FALSE, <<>>)

\* a panic ends the process
Alive == last.res.kind # "Panic"

\* a dump that is not reached meets nothing: its outcome is fixed to "ok"
DumpsReached(name, io1, io2) ==
  /\ AWS_set_default_profile(credentials, config, name).res.kind # "Ok" => io1 = "ok"
  /\ io1 # "ok" => io2 = "ok"

UseContext(name, io1, io2) ==
  /\ Alive
  /\ DumpsReached(name, io1, io2)
  /\ \E u \in {use_context(credentials, config, credentials_file, config_file, name, io1, io2)} :
        /\ credentials' = u.credentials
        /\ config' = u.config
        /\ credentials_file' = u.credentials_file
        /\ config_file' = u.config_file
        /\ last' = Called("use_context", name, u.res, u.steps, None, None, "none", TRUE, <<>>)
  /\ UNCHANGED configs

SetDefaultProfile(name) ==
  /\ Alive
  /\ \E r \in {AWS_set_default_profile(credentials, config, name)} :
        /\ credentials' = r.credentials
        /\ config' = r.config
        /\ last' = Called("set_default_profile", name, r.res, r.steps, None, None, "none",
                          FALSE, <<>>)
  /\ UNCHANGED <<configs, credentials_file, config_file>>

Auth(profile, env, io1, io2) ==
  /\ Alive
  /\ LET template == script_template(configs, profile)
         script   == render_template(template, profile)
     IN IF template # None /\ script # None
        THEN env \in ShOutcomes(script)
        ELSE env = "spawn_failed"
  /\ IF env = "exit_zero" THEN DumpsReached(profile, io1, io2) ELSE io1 = "ok" /\ io2 = "ok"
  /\ \E a \in {auth(credentials, config, credentials_file, config_file, configs, profile,
                   env, io1, io2)} :
        /\ credentials' = a.credentials
        /\ config' = a.config
        /\ credentials_file' = a.credentials_file
        /\ config_file' = a.config_file
        /\ last' = Called("auth", profile, a.res, a.steps, a.template, a.script, a.status,
                          a.switch, <<>>)
  /\ UNCHANGED configs

UseContextInteractive(pick, io1, io2) ==
  /\ Alive
  /\ pick \in PickerOutcomes(Reverse(list_contexts(credentials)))
  /\ IF pick.run = "some" /\ pick.final_key = "Enter"
          /\ pick.selected # <<>> /\ pick.selected # <<NotAContext>>
     THEN DumpsReached(pick.selected[1].name, io1, io2)
     ELSE io1 = "ok" /\ io2 = "ok"
  /\ \E u \in {use_context_interactive(credentials, config, credentials_file, config_file,
                                       pick, io1, io2)} :
        /\ credentials' = u.credentials
        /\ config' = u.config
        /\ credentials_file' = u.credentials_file
        /\ config_file' = u.config_file
        /\ last' = Called("use_context_interactive", u.picked, u.res, u.steps, None, None,
                          u.status, u.switch, u.candidates)
  /\ UNCHANGED configs

ListContexts ==
  /\ Alive
  /\ last' = Called("list_contexts", None, Ok(None, FALSE), <<>>, None, None, "none", FALSE,
                    list_contexts(credentials))
  /\ UNCHANGED <<credentials, config, configs, credentials_file, config_file>>

GetActiveContext ==
  /\ Alive
  /\ last' = Called("get_active_context", None, get_active_context(credentials), <<>>, None,
                    None, "none", FALSE, <<>>)
  /\ UNCHANGED <<credentials, config, configs, credentials_file, config_file>>

Next ==
  \/ \E name \in OpNames, io1 \in IoOutcomes, io2 \in IoOutcomes : UseContext(name, io1, io2)
  \/ \E name \in OpNames : SetDefaultProfile(name)
  \/ \E profile \in OpNames, env \in {"spawn_failed", "exit_zero", "exit_nonzero"},
        io1 \in IoOutcomes, io2 \in IoOutcomes : Auth(profile, env, io1, io2)
  \/ ListContexts
  \/ GetActiveContext

Spec == Init /\ [][Next]_vars

\* the candidates the picker can be sent
Candidates ==
  {<<>>} \cup {<<[name |-> n, active |-> a]>> : n \in CredSections \ {DEFAULT_PROFILE_NAME},
                                                  a \in BOOLEAN}
    \cup {<<[name |-> <<"foo">>, active |-> a]>> \o <<[name |-> <<"bar">>, active |-> b]>> :
            a \in BOOLEAN, b \in BOOLEAN}

\* the switches: by the picker, by name, and in memory only
NextInteractive ==
  \/ \E pick \in UNION {PickerOutcomes(c) : c \in Candidates},
        io1 \in IoOutcomes, io2 \in IoOutcomes : UseContextInteractive(pick, io1, io2)
  \/ \E name \in OpNames, io1 \in IoOutcomes, io2 \in IoOutcomes : UseContext(name, io1, io2)
  \/ \E name \in OpNames : SetDefaultProfile(name)

SpecInteractive == Init /\ [][NextInteractive]_vars

\* ---------------------------------------------------------------------
\* one settings store on its own: load, then set_default_profile and dump
\* ---------------------------------------------------------------------

\* the sections of the settings files loaded here: the reserved section, its
\* prefixed duplicate, prefixed profiles and a section without the prefix
StoreSections == ConfigSections \cup {<<"foo">>}

\* the names set_default_profile is called with
StoreNames == OpNames \cup {DEFAULT_PROFILE_NAME}

\* the file with its reserved section moved behind the other sections
DefaultLast(file) ==
  SelectSeq(file, LAMBDA sec : sec.name # DEFAULT_PROFILE_NAME)
    \o SelectSeq(file, LAMBDA sec : sec.name = DEFAULT_PROFILE_NAME)

\* the settings files loaded here: sections ascending by name, the reserved
\* section first or last
StoreInputFiles ==
  InputFiles(StoreSections) \cup {DefaultLast(f) : f \in InputFiles(StoreSections)}

\* Config::load_config
StoreInit ==
  /\ config_file \in StoreInputFiles
  /\ config \in load_config(config_file)
  /\ credentials = [data |-> <<>>, default_profile_name |-> None]
  /\ credentials_file = <<>>
  /\ configs = <<>>
  /\ last = Called("load_config", None, Ok(None, FALSE), <<>>, None, None, "none", FALSE, <<>>)

StoreSetDefault(name) ==
  /\ Alive
  /\ LET r == set_default_profile(config, name)
     IN /\ config' = r.store
        /\ last' = Called("Config.set_default_profile", name, r.res, <<>>, None, None, "none",
                          FALSE, <<>>)
  /\ UNCHANGED <<credentials, configs, credentials_file, config_file>>

StoreGetDefault ==
  /\ Alive
  /\ last' = Called("Config.get_default_profile", None, get_default_profile(config), <<>>,
                    None, None, "none", FALSE, <<>>)
  /\ UNCHANGED <<credentials, config, configs, credentials_file, config_file>>

StoreDump(io) ==
  /\ Alive
  /\ LET d == dump_config(config, config_file, io)
     IN /\ config_file' = d.file
        /\ last' = Called("Config.dump_config", None, d.res, <<>>, None, None, "none",
                          FALSE, <<>>)
  /\ UNCHANGED <<credentials, config, configs, credentials_file>>

\* Config::load_config of the file as it is now, by a later run of the program
StoreLoad ==
  /\ Alive
  /\ config' \in load_config(config_file)
  /\ last' = Called("load_config", None, Ok(None, FALSE), <<>>, None, None, "none", FALSE, <<>>)
  /\ UNCHANGED <<credentials, configs, credentials_file, config_file>>

StoreGetProfile(name) ==
  /\ Alive
  /\ last' = Called("Config.get_profile", name, get_profile(config, name), <<>>, None, None,
                    "none", FALSE, <<>>)
  /\ UNCHANGED <<credentials, config, configs, credentials_file, config_file>>

StoreListProfiles ==
  /\ Alive
  /\ last' = Called("Config.list_profiles", None, Ok(None, FALSE), <<>>, None, None, "none",
                    FALSE, list_profiles(config))
  /\ UNCHANGED <<credentials, config, configs, credentials_file, config_file>>

StoreNext ==
  \/ \E name \in StoreNames : StoreSetDefault(name)
  \/ StoreGetDefault
  \/ \E io \in IoOutcomes : StoreDump(io)
  \/ StoreLoad
  \/ \E name \in StoreNames : StoreGetProfile(name)
  \/ StoreListProfiles

SpecStore == StoreInit /\ [][StoreNext]_vars

\* ---------------------------------------------------------------------
\* the claims
\* ---------------------------------------------------------------------

\* the defaults a file can resolve to when it is loaded again
CredentialsFileDefaults == {c.default_profile_name : c \in load_credentials(credentials_file)}

ConfigFileDefaults == {c.default_profile_name : c \in load_config(config_file)}

\* the profiles of a store whose attributes equal those of name
SameItems(store, name) == {n \in DOMAIN store.data : store.data[n] = store.data[name]}

\* the last call ran use_context and it returned success
Switched == last.switch /\ last.res.kind = "Ok"

\* C1: after a use_context(name) that returns success, whatever was called
\* before it, the credentials store and the settings store both have name as
\* their in-memory default
C1_BothDefaultsAreName ==
  Switched =>
    /\ credentials.default_profile_name = last.name
    /\ config.default_profile_name = last.name

\* a successful use_context("bar") after which bar is the default of both stores
C1_Witness ==
  /\ last.op = "use_context" /\ last.res.kind = "Ok" /\ last.name = <<"bar">>
  /\ credentials.default_profile_name = <<"bar">>
  /\ config.default_profile_name = <<"bar">>

C3_DefaultIsAProfile ==
  /\ config.default_profile_name = None \/ config.default_profile_name \in DOMAIN config.data
  /\ last.res.kind # "Panic"

\* C4: use_context(name) with a name that is not in the credentials store, or
\* is there but not in the settings store, returns NoSuchProfile and writes
\* neither file
C4_Unknown ==
  /\ last'.switch
  /\ last'.name \notin DOMAIN credentials.data \/ last'.name \notin DOMAIN config.data

C4_UnknownWritesNothing ==
  [][C4_Unknown =>
       /\ last'.res = Err("NoSuchProfile", last'.name)
       /\ \A i \in 1..Len(last'.steps) :
            last'.steps[i][1] \notin {"dump_credentials", "dump_config"}
       /\ UNCHANGED <<credentials_file, config_file>>]_vars

\* use_context("foo") refused with foo in the credentials store and not in the
\* settings store
C4_Witness ==
  /\ last.op = "use_context" /\ last.res = Err("NoSuchProfile", <<"foo">>)
  /\ <<"foo">> \in DOMAIN credentials.data
  /\ <<"foo">> \notin DOMAIN config.data

\* C5 as stated: a switch that fails validation leaves both in-memory
\* defaults as they were
C5_FailedValidationChangesNothing ==
  [][(last'.switch /\ last'.res.kind = "NoSuchProfile")
       => UNCHANGED <<credentials, config>>]_vars

\* C5 amended: use_context(name) changes the settings store's in-memory
\* default only after name has been found in both stores, and the credentials
\* store's default as soon as name has been found in the credentials store; a
\* switch that fails validation leaves the settings default as it was, and the
\* credentials default as it was only when name is not in the credentials
\* store: otherwise the credentials default is name
C5_ValidationBeforeMutation ==
  [][last'.switch =>
       /\ config' # config =>
            last'.name \in DOMAIN credentials.data /\ last'.name \in DOMAIN config.data
       /\ credentials' # credentials => last'.name \in DOMAIN credentials.data
       /\ last'.res.kind = "NoSuchProfile" =>
            /\ config' = config
            /\ credentials' =
                 IF last'.name \in DOMAIN credentials.data
                 THEN [credentials EXCEPT !.default_profile_name = last'.name]
                 ELSE credentials]_vars

\* use_context("foo") refused for the settings store, where foo is not the
\* default, with foo now the default of the credentials store
C5_Witness ==
  /\ last.op = "use_context" /\ last.res = Err("NoSuchProfile", <<"foo">>)
  /\ credentials.default_profile_name = <<"foo">>
  /\ config.default_profile_name # <<"foo">>
  /\ <<"bar">> \in DOMAIN config.data

\* C6: set_default_profile(name) of the context manager sets the credentials
\* store first and the settings store second; with name in the credentials
\* store and not in the settings store it returns NoSuchProfile with the
\* credentials default already name and the settings default unchanged; with
\* name not in the credentials store neither store changes
C6_CredentialsFirstNoRollback ==
  [][last'.op = "set_default_profile" =>
       /\ last'.name \notin DOMAIN credentials.data =>
            /\ last'.res = Err("NoSuchProfile", last'.name)
            /\ last'.steps = <<<<"creds.set_default_profile", "NoSuchProfile">>>>
            /\ UNCHANGED <<credentials, config>>
       /\ (last'.name \in DOMAIN credentials.data /\ last'.name \notin DOMAIN config.data) =>
            /\ last'.res = Err("NoSuchProfile", last'.name)
            /\ last'.steps = <<<<"creds.set_default_profile", "Ok">>,
                               <<"config.set_default_profile", "NoSuchProfile">>>>
            /\ credentials' = [credentials EXCEPT !.default_profile_name = last'.name]
            /\ config' = config
       /\ (last'.name \in DOMAIN credentials.data /\ last'.name \in DOMAIN config.data) =>
            /\ last'.res = Ok(last'.name, TRUE)
            /\ last'.steps = <<<<"creds.set_default_profile", "Ok">>,
                               <<"config.set_default_profile", "Ok">>>>
            /\ credentials' = [credentials EXCEPT !.default_profile_name = last'.name]
            /\ config' = [config EXCEPT !.default_profile_name = last'.name]]_vars

\* set_default_profile("foo") refused by the settings store whose default is
\* bar, with foo now the default of the credentials store
C6_Witness ==
  /\ last.op = "set_default_profile" /\ last.res = Err("NoSuchProfile", <<"foo">>)
  /\ credentials.default_profile_name = <<"foo">>
  /\ config.default_profile_name = <<"bar">>

\* the calls of a use_context run, in the order the code makes them
UseContextCalls ==
  <<"creds.set_default_profile", "config.set_default_profile", "dump_credentials",
    "dump_config">>

\* C7: a run of use_context calls set_default_profile, the credentials dump
\* and the settings dump in that order, each only after the one before it
\* succeeded: the settings file is written only after the credentials file was
\* written, and not at all when the credentials dump fails
C7_DumpsInOrder ==
  [][last'.switch =>
       /\ Len(last'.steps) <= Len(UseContextCalls)
       /\ \A i \in 1..Len(last'.steps) :
            /\ last'.steps[i][1] = UseContextCalls[i]
            /\ i < Len(last'.steps) => last'.steps[i][2] = "Ok"
       /\ config_file' # config_file =>
            /\ Len(last'.steps) = 4
            /\ last'.steps[3] = <<"dump_credentials", "Ok">>
            /\ credentials_file' = Credentials_to_string(credentials').text
       /\ last'.res.kind = "CannotWriteCredentials" =>
            /\ config_file' = config_file
            /\ Len(last'.steps) = 3]_vars

\* a use_context("bar") whose credentials dump failed after create, leaving
\* the credentials file empty and the settings file with its sections
C7_Witness ==
  /\ last.op = "use_context" /\ last.name = <<"bar">>
  /\ last.res.kind = "CannotWriteCredentials"
  /\ credentials_file = <<>>
  /\ config_file # <<>>
  /\ config.default_profile_name = <<"bar">>
  /\ <<"bar">> \notin ConfigFileDefaults

\* the run wrote the credentials file and then failed to write the settings file
SettingsDumpFailed(call) ==
  /\ call.switch
  /\ Len(call.steps) = 4
  /\ call.steps[3] = <<"dump_credentials", "Ok">>
  /\ call.steps[4][1] = "dump_config" /\ call.steps[4][2] # "Ok"

C9_FailedAuthBlocksSwitch ==
  [][last'.op = "auth" =>
       /\ last'.status \in {"spawn_failed", "exit_nonzero"} =>
            /\ last'.res = Err("InvalidConfigurations", None)
            /\ ~last'.switch
            /\ last'.steps = <<>>
            /\ UNCHANGED <<credentials, config, credentials_file, config_file>>
       /\ last'.switch => last'.status = "exit_zero"]_vars

\* auth("bar") with the command `exit 1`: refused, although bar is in both
\* stores and is the default of neither
C9_Witness ==
  /\ last.op = "auth" /\ last.name = <<"bar">>
  /\ last.script = <<"exit", "1">> /\ last.status = "exit_nonzero"
  /\ last.res.kind = "InvalidConfigurations"
  /\ <<"bar">> \in DOMAIN credentials.data /\ <<"bar">> \in DOMAIN config.data
  /\ credentials.default_profile_name = <<"foo">>
  /\ config.default_profile_name = <<"foo">>

\* C10: auth(profile) takes the command of the profile when there is one,
\* otherwise the fallback command; with neither it returns NoAuthConfiguration
\* carrying the profile, runs no command and changes no store and no file
C10_TemplateLookup ==
  [][last'.op = "auth" =>
       /\ last'.name \in DOMAIN configs => last'.template = configs[last'.name]
       /\ (last'.name \notin DOMAIN configs /\ DEFAULT_AUTH_COMMAND_KEY \in DOMAIN configs) =>
            last'.template = configs[DEFAULT_AUTH_COMMAND_KEY]
       /\ (last'.name \notin DOMAIN configs /\ DEFAULT_AUTH_COMMAND_KEY \notin DOMAIN configs) =>
            /\ last'.res = Err("NoAuthConfiguration", last'.name)
            /\ last'.script = None /\ last'.status = "none"
            /\ ~last'.switch
            /\ UNCHANGED <<credentials, config, credentials_file, config_file>>
       /\ last'.res.kind = "NoAuthConfiguration" =>
            last'.name \notin DOMAIN configs /\ DEFAULT_AUTH_COMMAND_KEY \notin DOMAIN configs]_vars

\* auth("nope") with no command of nope and no fallback command
C10_Witness ==
  /\ last.op = "auth" /\ last.res = Err("NoAuthConfiguration", <<"nope">>)
  /\ DOMAIN configs = {<<"bar">>, <<"foo">>}
  /\ last.script = None

\* C11: use_context_interactive never switches in part. When the picker is
\* cancelled, ended with a key that is not the accept key, fails or returns no
\* selection, the call returns NoContextIsSelected or UnexpectedError and
\* leaves both stores and both files as they were; when a name is selected and
\* confirmed, its result and its effects are those of use_context(name)
C11_InteractiveSwitchesAsUseContext ==
  [][last'.op = "use_context_interactive" =>
       /\ last'.status # "selected" =>
            /\ last'.res.kind \in {"NoContextIsSelected", "UnexpectedError"}
            /\ ~last'.switch
            /\ last'.steps = <<>>
            /\ UNCHANGED <<credentials, config, credentials_file, config_file>>
       /\ last'.status = "selected" =>
            /\ last'.switch
            /\ last'.name \in DOMAIN credentials.data
            /\ \E io1 \in IoOutcomes, io2 \in IoOutcomes :
                 \E u \in {use_context(credentials, config, credentials_file, config_file,
                                       last'.name, io1, io2)} :
                   /\ last'.res = u.res
                   /\ last'.steps = u.steps
                   /\ credentials' = u.credentials
                   /\ config' = u.config
                   /\ credentials_file' = u.credentials_file
                   /\ config_file' = u.config_file]_vars

\* a picker left with a key other than the accept key while bar was
\* selected, the stores having foo as their default
C11_Witness ==
  /\ last.op = "use_context_interactive" /\ last.status = "key"
  /\ last.res = Err("NoContextIsSelected", None)
  /\ Len(last.list) = 2
  /\ credentials.default_profile_name = <<"foo">>
  /\ config.default_profile_name = <<"foo">>

\* C12: list_contexts returns the profiles of the credentials store, each
\* once, in ascending order of name, each active exactly when its name is the
\* default of the credentials store, whatever the settings store holds;
\* get_active_context returns the default of the credentials store, and
\* NoActiveContext when it has none
C12_ContextsAreCredentialsProfiles ==
  /\ last.op = "list_contexts" =>
       /\ {last.list[i].name : i \in 1..Len(last.list)} = DOMAIN credentials.data
       /\ Len(last.list) = Cardinality(DOMAIN credentials.data)
       /\ \A i \in 1..Len(last.list) : \A j \in (i + 1)..Len(last.list) :
            StrLeq(last.list[i].name, last.list[j].name)
       /\ \A i \in 1..Len(last.list) :
            last.list[i].active = (last.list[i].name = credentials.default_profile_name)
  /\ last.op = "get_active_context" =>
       last.res = IF credentials.default_profile_name = None
                  THEN Err("NoActiveContext", None)
                  ELSE Ok(credentials.default_profile_name, TRUE)

\* list_contexts returning bar and foo with foo active, while the settings
\* store holds bar alone and has bar as its default
C12_Witness ==
  /\ last.op = "list_contexts"
  /\ last.list = <<[name |-> <<"bar">>, active |-> FALSE], [name |-> <<"foo">>, active |-> TRUE]>>
  /\ DOMAIN config.data = {<<"bar">>}
  /\ config.default_profile_name = <<"bar">>

\* C13: set_default_profile(name) of a store with a name that is not one of
\* its profiles returns NoSuchProfile carrying name and leaves
\* default_profile_name as it was, set or unset
C13_UnknownNameKeepsDefault ==
  [][(last'.op = "Config.set_default_profile" /\ last'.name \notin DOMAIN config.data) =>
       /\ last'.res = Err("NoSuchProfile", last'.name)
       /\ config'.default_profile_name = config.default_profile_name
       /\ config' = config]_vars

\* set_default_profile("nope") refused by a store of bar and foo whose
\* default stays foo
C13_Witness ==
  /\ last.op = "Config.set_default_profile" /\ last.res = Err("NoSuchProfile", <<"nope">>)
  /\ DOMAIN config.data = {<<"bar">>, <<"foo">>}
  /\ config.default_profile_name = <<"foo">>

\* the call before this one was a set_default_profile that succeeded
AfterSetDefault == last.op = "Config.set_default_profile" /\ last.res.kind = "Ok"

\* C14: a set_default_profile(name) that succeeds, whatever the default was,
\* returns the profile name with its default flag true; right after it
\* get_default_profile returns name with the flag true, list_profiles flags
\* name and no other profile (so not the default of before), and a second
\* set_default_profile(name) returns the same and changes nothing
C14_SetDefaultTakesEffect ==
  [][/\ (last'.op = "Config.set_default_profile" /\ last'.res.kind = "Ok") =>
          /\ last'.res = Profile(last'.name, TRUE, config.data[last'.name])
          /\ config' = [config EXCEPT !.default_profile_name = last'.name]
     /\ (AfterSetDefault /\ last'.op = "Config.get_default_profile") =>
          last'.res = Profile(last.name, TRUE, config.data[last.name])
     /\ (AfterSetDefault /\ last'.op = "Config.list_profiles") =>
          /\ \E i \in 1..Len(last'.list) : last'.list[i].name = last.name
          /\ \A i \in 1..Len(last'.list) :
               last'.list[i].default = (last'.list[i].name = last.name)
     /\ (AfterSetDefault /\ last'.op = "Config.set_default_profile" /\ last'.name = last.name) =>
          /\ last'.res = last.res
          /\ config' = config]_vars

\* list_profiles right after set_default_profile("bar") on a store loaded
\* with the default foo: bar is flagged, foo is not
C14_Witness ==
  /\ last.op = "Config.list_profiles"
  /\ config.default_profile_name = <<"bar">>
  /\ ConfigFileDefaults = {<<"foo">>}
  /\ \E i \in 1..Len(last.list) : last.list[i].name = <<"bar">> /\ last.list[i].default
  /\ \E i \in 1..Len(last.list) : last.list[i].name = <<"foo">> /\ ~last.list[i].default

\* the sections of a parsed file, other than the reserved one, whose
\* attributes equal those of the reserved section
EqualToDefault(parsed) ==
  IF DEFAULT_PROFILE_NAME \notin DOMAIN parsed THEN {}
  ELSE {n \in DOMAIN parsed :
          n # DEFAULT_PROFILE_NAME /\ parsed[n] = parsed[DEFAULT_PROFILE_NAME]}

\* C15: load resolves the default of a settings file to the name, with the
\* profile prefix stripped, of a section whose attributes equal those of the
\* reserved section, and to None when there is no reserved section or no
\* other section equals it
C15_LoadResolvesDefault ==
  last.op = "load_config" =>
    IF EqualToDefault(parse_aws_config(config_file)) = {}
    THEN config.default_profile_name = None
    ELSE \E n \in EqualToDefault(parse_aws_config(config_file)) :
           config.default_profile_name = strip_prefix_or(n)

\* a settings file in the store's format: its sections are the reserved one
\* and sections "profile <name>" of names other than the reserved one, these
\* ascending with ascending keys, and the reserved section, when there is one,
\* has the attributes of one of them
WellFormedFile(file) ==
  /\ \A i \in 1..Len(file) :
       \/ file[i].name = DEFAULT_PROFILE_NAME
       \/ strip_prefix(file[i].name) \notin {None, DEFAULT_PROFILE_NAME}
  /\ \A i \in 1..Len(file) : \A j \in (i + 1)..Len(file) :
       (file[i].name # DEFAULT_PROFILE_NAME /\ file[j].name # DEFAULT_PROFILE_NAME) =>
         (StrLeq(file[i].name, file[j].name) /\ file[i].name # file[j].name)
  /\ \A i \in 1..Len(file) :
       /\ file[i].lines # <<>>
       /\ \A k \in 1..Len(file[i].lines) : \A l \in (k + 1)..Len(file[i].lines) :
            Rank(file[i].lines[k][1]) < Rank(file[i].lines[l][1])
  /\ DEFAULT_PROFILE_NAME \in DOMAIN parse_aws_config(file) =>
       EqualToDefault(parse_aws_config(file)) # {}

\* the dump that follows the load of the file, and meets no I/O error
DumpAfterLoad ==
  /\ last.op = "load_config"
  /\ last'.op = "Config.dump_config" /\ last'.res.kind # "CannotWriteConfig"

\* C16 as stated: for a well-formed file whose profile sections and keys are
\* ascending, with or without the reserved section, the dump of the store
\* loaded from it reproduces the file
C16_DumpOfLoadReproducesFile ==
  [][(DumpAfterLoad /\ WellFormedFile(config_file)) =>
       /\ last'.res.kind = "Ok"
       /\ config_file' = config_file]_vars

\* C16 amended: for a well-formed file whose profile sections and keys are
\* ascending and whose reserved section, when it has one, is its last
\* section, the dump of the store loaded from it reproduces the file, and so
\* has no reserved section when the file had none
C16_DumpOfLoadReproducesDefaultLast ==
  [][(/\ DumpAfterLoad /\ WellFormedFile(config_file)
      /\ \A i \in 1..(Len(config_file) - 1) : config_file[i].name # DEFAULT_PROFILE_NAME) =>
       /\ last'.res.kind = "Ok"
       /\ config_file' = config_file
       /\ DEFAULT_PROFILE_NAME \in DOMAIN parse_aws_config(config_file') <=>
            DEFAULT_PROFILE_NAME \in DOMAIN parse_aws_config(config_file)]_vars

\* a dump that left the file of the profiles bar and foo, of different
\* attributes, with the reserved section last and equal to foo, in a store
\* whose default is foo
C16_Witness ==
  /\ last.op = "Config.dump_config" /\ last.res.kind = "Ok"
  /\ config.default_profile_name = <<"foo">>
  /\ config_file = <<[name |-> <<"profile", "bar">>, lines |-> <<<<"region", 1>>>>],
                     [name |-> <<"profile", "foo">>, lines |-> <<<<"region", 2>>>>],
                     [name |-> DEFAULT_PROFILE_NAME, lines |-> <<<<"region", 2>>>>]>>
  /\ config \in load_config(config_file)

\* the keys of the lines are ascending and the lines hold items and no more
LinesOf(lines, items) ==
  /\ Len(lines) = Cardinality(DOMAIN items)
  /\ \A k \in 1..Len(lines) :
       /\ lines[k][1] \in DOMAIN items /\ lines[k][2] = items[lines[k][1]]
       /\ \A l \in (k + 1)..Len(lines) : Rank(lines[k][1]) < Rank(lines[l][1])

\* C17: a dump that meets no I/O error writes one section for every profile,
\* the sections ascending by name and the keys ascending in each; it writes
\* the reserved section exactly when a default is set, as the last section
\* and with the attributes of the default profile; the text is a function of
\* the store
C17_DumpFormat ==
  [][(last'.op = "Config.dump_config" /\ last'.res.kind # "CannotWriteConfig") =>
       LET n == Cardinality(DOMAIN config.data)
       IN /\ Len(config_file') = n + (IF config.default_profile_name = None THEN 0 ELSE 1)
          /\ \A p \in DOMAIN config.data :
               \E i \in 1..n : /\ config_file'[i].name = with_prefix(p)
                               /\ LinesOf(config_file'[i].lines, config.data[p])
          /\ \A i \in 1..n : \A j \in (i + 1)..n :
               /\ StrLeq(config_file'[i].name, config_file'[j].name)
               /\ config_file'[i].name # config_file'[j].name
          /\ config.default_profile_name # None =>
               /\ config_file'[n + 1].name = DEFAULT_PROFILE_NAME
               /\ config.default_profile_name \in DOMAIN config.data
               /\ LinesOf(config_file'[n + 1].lines, config.data[config.default_profile_name])
          /\ config_file' = to_string(config).text]_vars

\* C18: list_profiles returns, in every state of the store, each profile
\* once, ascending by name, with its attributes and with its default flag true
\* exactly when its name is default_profile_name
C18_ListProfilesSortedAndFlagged ==
  last.op = "Config.list_profiles" =>
    /\ {last.list[i].name : i \in 1..Len(last.list)} = DOMAIN config.data
    /\ Len(last.list) = Cardinality(DOMAIN config.data)
    /\ \A i \in 1..Len(last.list) : \A j \in (i + 1)..Len(last.list) :
         /\ StrLeq(last.list[i].name, last.list[j].name)
         /\ last.list[i].name # last.list[j].name
    /\ \A i \in 1..Len(last.list) :
         /\ last.list[i].items = config.data[last.list[i].name]
         /\ last.list[i].default = (last.list[i].name = config.default_profile_name)

\* list_profiles of a store loaded from a file whose sections come foo
\* before bar (foo without the prefix): bar is listed first, foo flagged
C18_Witness ==
  /\ last.op = "Config.list_profiles"
  /\ Len(last.list) = 2
  /\ last.list[1].name = <<"bar">> /\ ~last.list[1].default
  /\ last.list[2].name = <<"foo">> /\ last.list[2].default
  /\ \E i \in 1..Len(config_file) : \E j \in (i + 1)..Len(config_file) :
       config_file[i].name = <<"foo">> /\ config_file[j].name = <<"profile", "bar">>

\* C19: get_profile(name) returns, for a name of the store, the profile with
\* its attributes and with its default flag true exactly when name is
\* default_profile_name, and for any other name NoSuchProfile carrying the
\* name; it changes nothing of the store
C19_GetProfile ==
  [][last'.op = "Config.get_profile" =>
       /\ last'.name \in DOMAIN config.data =>
            /\ last'.res.kind = "Ok"
            /\ last'.res.name = last'.name
            /\ last'.res.items = config.data[last'.name]
            /\ last'.res.default = (config.default_profile_name = last'.name)
       /\ last'.name \notin DOMAIN config.data =>
            last'.res = Err("NoSuchProfile", last'.name)
       /\ config' = config
       /\ config_file' = config_file]_vars

\* get_profile("foo") returning foo with its attributes and the flag true,
\* in a store that also has bar with other attributes
C19_Witness ==
  /\ last.op = "Config.get_profile"
  /\ last.res = Profile(<<"foo">>, TRUE, [region |-> 2])
  /\ <<"bar">> \in DOMAIN config.data /\ config.data[<<"bar">>] = [region |-> 1]

\* C20: get_default_profile returns, in every state of the store,
\* NoActiveContext when default_profile_name is unset, and otherwise the
\* profile that default_profile_name names, with its default flag true
C20_GetDefaultProfile ==
  last.op = "Config.get_default_profile" =>
    IF config.default_profile_name = None
    THEN last.res = Err("NoActiveContext", None)
    ELSE /\ last.res.kind = "Ok"
         /\ last.res.name = config.default_profile_name
         /\ last.res.default

\* C21: once a store is loaded its profiles, names and attributes, never
\* change: set_default_profile, returning a profile or an error, get_profile,
\* get_default_profile, list_profiles and dump leave them as they are, and
\* default_profile_name changes in set_default_profile only
C21_ProfilesAreFrozen ==
  [][last'.op # "load_config" =>
       /\ config'.data = config.data
       /\ config'.default_profile_name # config.default_profile_name =>
            /\ last'.op = "Config.set_default_profile"
            /\ last'.res.kind = "Ok"
            /\ config'.default_profile_name = last'.name]_vars

\* set_default_profile("nope") refused by a store whose default had been
\* changed from foo, the default in the file, to bar
C21_Witness ==
  /\ last.op = "Config.set_default_profile" /\ last.res.kind = "NoSuchProfile"
  /\ last.name = <<"nope">>
  /\ config.default_profile_name = <<"bar">>
  /\ ConfigFileDefaults = {<<"foo">>}
  /\ DOMAIN config.data = {<<"bar">>, <<"foo">>}

\* C22: whenever use_context_interactive runs the picker it has sent it the
\* contexts of list_contexts, each once, from the last to the first, so
\* descending by name, and as they are before the call changes any store: a
\* context is sent as active exactly when it was the default before the call
C22_PickerGetsContextsReversed ==
  [][(last'.op = "use_context_interactive" /\ last'.status # "send_failed") =>
       /\ Len(last'.list) = Len(list_contexts(credentials))
       /\ \A i \in 1..Len(last'.list) :
            last'.list[i] = list_contexts(credentials)[Len(last'.list) + 1 - i]
       /\ {last'.list[i].name : i \in 1..Len(last'.list)} = DOMAIN credentials.data
       /\ \A i \in 1..Len(last'.list) : \A j \in (i + 1)..Len(last'.list) :
            /\ StrLeq(last'.list[j].name, last'.list[i].name)
            /\ last'.list[j].name # last'.list[i].name
       /\ \A i \in 1..Len(last'.list) :
            last'.list[i].active = (last'.list[i].name = credentials.default_profile_name)]_vars

\* the picker was sent foo, active, and then bar, bar was selected and
\* confirmed, and bar is now the default of the credentials store
C22_Witness ==
  /\ last.op = "use_context_interactive" /\ last.status = "selected"
  /\ last.name = <<"bar">> /\ last.res.kind = "Ok"
  /\ last.list = <<[name |-> <<"foo">>, active |-> TRUE], [name |-> <<"bar">>, active |-> FALSE]>>
  /\ credentials.default_profile_name = <<"bar">>

\* the sections of a parsed file that load keeps as profiles: all but the
\* reserved section and its prefixed duplicate
ProfileSections(parsed) ==
  DOMAIN parsed \ {DEFAULT_PROFILE_NAME, with_prefix(DEFAULT_PROFILE_NAME)}

\* C23: load keeps every section of the file, other than the reserved section
\* and its prefixed duplicate, as a profile of its own: the sections have
\* different names once the prefix is stripped, there are as many profiles as
\* such sections, each profile has the attributes of its section, and no
\* profile has the reserved name
C23_LoadKeepsEverySection ==
  last.op = "load_config" =>
    /\ \A k1 \in ProfileSections(parse_aws_config(config_file)) :
         \A k2 \in ProfileSections(parse_aws_config(config_file)) :
           k1 # k2 => strip_prefix_or(k1) # strip_prefix_or(k2)
    /\ Cardinality(DOMAIN config.data)
         = Cardinality(ProfileSections(parse_aws_config(config_file)))
    /\ \A k \in ProfileSections(parse_aws_config(config_file)) :
         /\ strip_prefix_or(k) \in DOMAIN config.data
         /\ config.data[strip_prefix_or(k)] = parse_aws_config(config_file)[k]
    /\ DEFAULT_PROFILE_NAME \notin DOMAIN config.data

\* C24: for a store with a default d, the store loaded from its dump has the
\* same profiles with the same attributes and a default that is set and names
\* a profile with the attributes of d: d itself when no other profile has them
C24_ReloadOfDumpKeepsStore ==
  [][(/\ last'.op = "Config.dump_config" /\ last'.res.kind # "CannotWriteConfig"
      /\ config.default_profile_name # None) =>
       /\ last'.res.kind = "Ok"
       /\ config.default_profile_name \in DOMAIN config.data
       /\ \A c \in load_config(config_file') :
            /\ c.data = config.data
            /\ c.default_profile_name # None
            /\ c.default_profile_name \in SameItems(config, config.default_profile_name)
            /\ SameItems(config, config.default_profile_name) = {config.default_profile_name}
                 => c.default_profile_name = config.default_profile_name]_vars

\* the positions of the active contexts of a list
ActiveOf(list) == {i \in 1..Len(list) : list[i].active}

\* what get_active_context returns agrees with the list of list_contexts
AgreesWith(res, list) ==
  /\ res.kind = "Ok" <=> Cardinality(ActiveOf(list)) = 1
  /\ res.kind = "Ok" =>
       \A i \in ActiveOf(list) : list[i] = [name |-> res.name, active |-> res.active]
  /\ res.kind = "NoActiveContext" <=> ActiveOf(list) = {}

\* C25: whatever was called before, list_contexts has at most one active
\* context; get_active_context, called next to it, succeeds exactly when one
\* context is active and returns that context, and returns NoActiveContext
\* exactly when none is
C25_OneActiveContext ==
  [][/\ last'.op = "list_contexts" => Cardinality(ActiveOf(last'.list)) <= 1
     /\ (last.op = "list_contexts" /\ last'.op = "get_active_context") =>
          AgreesWith(last'.res, last.list)
     /\ (last.op = "get_active_context" /\ last'.op = "list_contexts") =>
          AgreesWith(last.res, last'.list)]_vars

\* get_active_context returning foo right after list_contexts, on a
\* credentials store of bar and foo whose default was set to foo while the
\* file still resolves to bar
C25_Witness ==
  /\ last.op = "get_active_context" /\ last.res = Ok(<<"foo">>, TRUE)
  /\ DOMAIN credentials.data = {<<"bar">>, <<"foo">>}
  /\ CredentialsFileDefaults = {<<"bar">>}

====
